---- MODULE Spec2Model ----
(***************************************************************************)
(* LoanLedger: the loan store (services/localStorage.js, localLoans), the  *)
(* storage hook (hooks/useLocalStorage.js), the loan calculations          *)
(* (utils/loanCalculations.js) and the part of the creation wizard that    *)
(* feeds createLoan.                                                       *)
(*                                                                         *)
(* JavaScript numbers are modelled as exact rationals [n, d] with d > 0;   *)
(* NaN is [n |-> 0, d |-> 0].  Money is in rupees, so a stored value that  *)
(* the code rounds with Math.round(x * 100) / 100 is a rational whose      *)
(* denominator divides 100.  Arrays are sequences: JavaScript index i is   *)
(* position i + 1.                                                         *)
(***************************************************************************)
EXTENDS Integers, Sequences, FiniteSets, TLC

\* ------------------------------------------------------------------ bounds
MaxMonths == 2
MaxLoans == 2
\* the longest term, in months, of the loan terms that are enumerated
MaxTerm == 3
\* the days the clock of the due-date checks runs for
MaxDays == 2
\* the accounts that may be created
MaxUsers == 2
\* the instants the clock of the stored loans runs through, after 0
MaxNow == 2

\* ---------------------------------------------------------- JS numbers
\* A finite number is [n, d] in lowest terms, d > 0, while both fit the
\* machine integers, and beyond that a long number [n, d, bn, bd]: n its
\* sign, d = -1, bn and bd the numerator and the denominator as sequences of
\* limbs.  d = 0 marks NaN (n = 0) and the infinities (n = 1, n = -1).
NaN == [n |-> 0, d |-> 0]
Infinity == [n |-> 1, d |-> 0]
NegInfinity == [n |-> -1, d |-> 0]

IsBig(x) == x.d < 0

IsNaN(x) == x.d = 0 /\ x.n = 0

IsInf(x) == x.d = 0 /\ x.n # 0

Abs(i) == IF i < 0 THEN -i ELSE i

Sgn(i) == IF i < 0 THEN -1 ELSE IF i = 0 THEN 0 ELSE 1

RECURSIVE GCD(_, _)
GCD(a, b) == IF b = 0 THEN a ELSE GCD(b, a % b)

\* the rational n/d in lowest terms, d > 0
Norm(n, d) ==
  IF d = 0 THEN NaN
  ELSE LET g == GCD(Abs(n), Abs(d))
           s == IF d < 0 THEN -1 ELSE 1
       IN  [n |-> s * (n \div g), d |-> s * (d \div g)]

Num(i) == [n |-> i, d |-> 1]

\* the largest factor whose products can still be added in machine integers
MaxInt == (2 ^ 30) - 1

\* a * b stays within MaxInt
MulFits(a, b) == a = 0 \/ b = 0 \/ Abs(a) <= MaxInt \div Abs(b)

\* a finite number whose products with another such number can be added
\* in machine integers
Small(x) == x.d > 0 /\ x.d <= 32767 /\ x.n <= 32767 /\ x.n >= -32767

\* ---- numbers beyond the machine integers.  A natural number is a
\* sequence of limbs to the base 10^4, least significant first, without
\* leading zeros; bn and bd of a long number are such sequences.
Base == 100 * 100

\* a is at most 2^30 - 1 = 10 7374 1823
BFits(a) ==
  \/ Len(a) <= 2
  \/ Len(a) = 3 /\ (a[3] < 10 \/ (a[3] = 10 /\ a[2] * Base + a[1] <= 73741823))

BLimb(a, i) == IF i <= Len(a) THEN a[i] ELSE 0

\* The long arithmetic, one operation per case:
\*   norm      a without leading zero limbs
\*   fromInt   the limbs of the integer i >= 0
\*   toInt     the integer of the limbs a
\*   cmp       the sign of a - b         (cmpFrom: from limb i down)
\*   add       a + b                     (addFrom: from limb i up, carry q)
\*   sub       a - b for a >= b          (subFrom: from limb i up, borrow q)
\*   mulLimb   a * b for one limb b      (mulLimbFrom: from limb i up, carry q)
\*   mul       a * b                     (mulFrom: from limb i of b up)
\*   quotLimb  the largest limb in i..q whose product with b is at most a
\*   divMod    [q, r] with a = q * b + r, r < b, for b > 0
\*             (divFrom: limbs i..1 of a, quotient q and remainder r so far)
\*   gcd       the greatest common divisor of a and b
\*   long      the number a as a long number
\*   ratio     the number i * a / b in lowest terms, short when it fits
\*   ratAdd    a + b for numbers a, b
\*   ratMul    a * b for numbers a, b
\*   ratRound  Math.round(a): the nearest integer, a tie going up
RECURSIVE Long(_, _, _, _, _, _)
Long(op, a, b, i, q, r) ==
  LET Nrm(u) == Long("norm", u, <<>>, 0, 0, 0)
      Cmp(u, v) == Long("cmp", u, v, 0, 0, 0)
      Add(u, v) == Long("addFrom", u, v, 1, 0, 0)
      Sub(u, v) == Long("norm", Long("subFrom", u, v, 1, 0, 0), <<>>, 0, 0, 0)
      MulLimb(u, k) == IF k = 0 THEN <<>> ELSE Long("mulLimbFrom", u, k, 1, 0, 0)
      Mul(u, v) == Long("mulFrom", u, v, 1, 0, 0)
      DivMod(u, v) == Long("divFrom", u, v, Len(u), <<>>, <<>>)
      Gcd(u, v) == Long("gcd", u, v, 0, 0, 0)
      Big(x) == Long("long", x, 0, 0, 0, 0)
      Ratio(s, u, v) == Long("ratio", u, v, s, 0, 0)
  IN
  CASE op = "norm" ->
         IF Len(a) > 0 /\ a[Len(a)] = 0 THEN Nrm(SubSeq(a, 1, Len(a) - 1)) ELSE a
    [] op = "fromInt" ->
         IF i = 0 THEN <<>>
         ELSE <<i % Base>> \o Long("fromInt", a, b, i \div Base, q, r)
    [] op = "toInt" ->
         IF Len(a) = 0 THEN 0 ELSE a[1] + Base * Long("toInt", Tail(a), b, i, q, r)
    [] op = "cmpFrom" ->
         IF i = 0 THEN 0
         ELSE IF a[i] < b[i] THEN -1
         ELSE IF a[i] > b[i] THEN 1
         ELSE Long("cmpFrom", a, b, i - 1, q, r)
    [] op = "cmp" ->
         IF Len(a) < Len(b) THEN -1
         ELSE IF Len(a) > Len(b) THEN 1
         ELSE Long("cmpFrom", a, b, Len(a), q, r)
    [] op = "addFrom" ->
         IF i > Len(a) /\ i > Len(b)
         THEN IF q = 0 THEN <<>> ELSE <<q>>
         ELSE LET t == BLimb(a, i) + BLimb(b, i) + q
              IN  <<t % Base>> \o Long("addFrom", a, b, i + 1, t \div Base, r)
    [] op = "subFrom" ->
         IF i > Len(a) THEN <<>>
         ELSE LET t == a[i] - BLimb(b, i) - q
              IN  IF t < 0 THEN <<t + Base>> \o Long("subFrom", a, b, i + 1, 1, r)
                           ELSE <<t>> \o Long("subFrom", a, b, i + 1, 0, r)
    [] op = "mulLimbFrom" ->
         IF i > Len(a) THEN IF q = 0 THEN <<>> ELSE <<q>>
         ELSE LET t == a[i] * b + q
              IN  <<t % Base>> \o Long("mulLimbFrom", a, b, i + 1, t \div Base, r)
    [] op = "mulFrom" ->
         IF i > Len(b) THEN <<>>
         ELSE LET rest == Long("mulFrom", a, b, i + 1, q, r)
              IN  Add(MulLimb(a, b[i]),
                      IF Len(rest) = 0 THEN <<>> ELSE <<0>> \o rest)
    [] op = "quotLimb" ->
         IF i = q THEN i
         ELSE LET mid == (i + q + 1) \div 2
              IN  IF Cmp(MulLimb(b, mid), a) <= 0
                  THEN Long("quotLimb", a, b, mid, q, r)
                  ELSE Long("quotLimb", a, b, i, mid - 1, r)
    [] op = "divFrom" ->
         IF i = 0 THEN [q |-> Nrm(q), r |-> r]
         ELSE CHOOSE out \in
                {CHOOSE rest \in
                   {Long("divFrom", a, b, i - 1, <<d>> \o q, r2) :
                      r2 \in {Sub(r1, MulLimb(b, d))}} : TRUE :
                   r1 \in {Nrm(<<a[i]>> \o r)},
                   d \in {Long("quotLimb", Nrm(<<a[i]>> \o r), b, 0, Base - 1, 0)}} :
                TRUE
    [] op = "gcd" ->
         IF Len(b) = 0 THEN a
         ELSE CHOOSE out \in
                {IF Len(r1) = 0 THEN b ELSE Gcd(r1, DivMod(b, r1).r) :
                   r1 \in {DivMod(a, b).r}} : TRUE
    [] op = "long" ->
         IF IsBig(a) THEN a
         ELSE [n |-> Sgn(a.n), d |-> -1,
               bn |-> Long("fromInt", 0, 0, Abs(a.n), 0, 0),
               bd |-> Long("fromInt", 0, 0, a.d, 0, 0)]
    [] op = "ratio" ->
         IF Len(a) = 0 THEN Num(0)
         ELSE LET g == Gcd(a, b)
                  n == DivMod(a, g).q
                  d == DivMod(b, g).q
              IN  IF BFits(n) /\ BFits(d)
                  THEN [n |-> i * Long("toInt", n, 0, 0, 0, 0),
                        d |-> Long("toInt", d, 0, 0, 0, 0)]
                  ELSE [n |-> i, d |-> -1, bn |-> n, bd |-> d]
    [] op = "ratAdd" ->
         LET x == Big(a)
             y == Big(b)
             g == Gcd(x.bd, y.bd)
             xd == DivMod(x.bd, g).q
             yd == DivMod(y.bd, g).q
             m == Mul(x.bn, yd)
             n == Mul(y.bn, xd)
             d == Mul(xd, y.bd)
         IN  IF x.n = 0 THEN Ratio(y.n, y.bn, y.bd)
             ELSE IF y.n = 0 THEN Ratio(x.n, x.bn, x.bd)
             ELSE IF x.n = y.n THEN Ratio(x.n, Add(m, n), d)
             ELSE IF Cmp(m, n) >= 0 THEN Ratio(x.n, Sub(m, n), d)
             ELSE Ratio(y.n, Sub(n, m), d)
    [] op = "ratMul" ->
         LET x == Big(a)
             y == Big(b)
             g1 == Gcd(x.bn, y.bd)
             g2 == Gcd(y.bn, x.bd)
         IN  IF x.n * y.n = 0 THEN Num(0)
             ELSE Ratio(x.n * y.n,
                        Mul(DivMod(x.bn, g1).q, DivMod(y.bn, g2).q),
                        Mul(DivMod(x.bd, g2).q, DivMod(y.bd, g1).q))
    [] op = "ratRound" ->
         LET x == Big(a)
             d2 == MulLimb(x.bd, 2)
             n2 == MulLimb(x.bn, 2)
         IN  IF x.n >= 0
             THEN Ratio(1, DivMod(Add(n2, x.bd), d2).q, <<1>>)
             ELSE IF Cmp(n2, x.bd) <= 0 THEN Num(0)
             ELSE LET qr == DivMod(Sub(n2, x.bd), d2)
                  IN  Ratio(-1, IF Len(qr.r) = 0 THEN qr.q ELSE Add(qr.q, <<1>>),
                            <<1>>)

\* the sign of a finite or infinite number
NumSign(x) == Sgn(x.n)

NumAdd(x, y) ==
  IF Small(x) /\ Small(y)
  THEN LET g == GCD(x.d, y.d)
       IN  Norm(x.n * (y.d \div g) + y.n * (x.d \div g), (x.d \div g) * y.d)
  ELSE IF IsNaN(x) \/ IsNaN(y) THEN NaN
  ELSE IF IsInf(x) THEN (IF IsInf(y) /\ y.n # x.n THEN NaN ELSE x)
  ELSE IF IsInf(y) THEN y
  ELSE IF ~IsBig(x) /\ ~IsBig(y) /\ MulFits(x.n, y.d) /\ MulFits(y.n, x.d)
          /\ MulFits(x.d, y.d)
  THEN LET g == GCD(x.d, y.d)
       IN  Norm(x.n * (y.d \div g) + y.n * (x.d \div g), (x.d \div g) * y.d)
  ELSE Long("ratAdd", x, y, 0, 0, 0)

NumNeg(x) == [x EXCEPT !.n = -@]

NumSub(x, y) == NumAdd(x, NumNeg(y))

\* cross-cancelled so that intermediate products stay small
NumMul(x, y) ==
  IF Small(x) /\ Small(y)
  THEN LET g1 == GCD(Abs(x.n), y.d)
           g2 == GCD(Abs(y.n), x.d)
       IN  Norm((x.n \div g1) * (y.n \div g2), (x.d \div g2) * (y.d \div g1))
  ELSE IF IsNaN(x) \/ IsNaN(y) THEN NaN
  ELSE IF IsInf(x) \/ IsInf(y)
  THEN (IF NumSign(x) * NumSign(y) = 0 THEN NaN
        ELSE IF NumSign(x) * NumSign(y) > 0 THEN Infinity ELSE NegInfinity)
  ELSE IF ~IsBig(x) /\ ~IsBig(y) /\ MulFits(x.n, y.n) /\ MulFits(x.d, y.d)
  THEN LET g1 == GCD(Abs(x.n), y.d)
           g2 == GCD(Abs(y.n), x.d)
       IN  Norm((x.n \div g1) * (y.n \div g2), (x.d \div g2) * (y.d \div g1))
  ELSE Long("ratMul", x, y, 0, 0, 0)

\* 1 / y for a finite y other than 0
Inverse(y) ==
  IF IsBig(y) THEN [y EXCEPT !.bn = y.bd, !.bd = y.bn]
  ELSE IF y.n < 0 THEN [n |-> -y.d, d |-> -y.n]
  ELSE [n |-> y.d, d |-> y.n]

\* x / y: 0 / 0 is NaN and any other number over 0 is +-Infinity (the
\* zero taken as +0)
NumDiv(x, y) ==
  IF x.d > 0 /\ y.d > 0 /\ y.n # 0 THEN NumMul(x, Inverse(y))
  ELSE IF IsNaN(x) \/ IsNaN(y) THEN NaN
  ELSE IF IsInf(x)
  THEN (IF IsInf(y) THEN NaN
        ELSE IF (NumSign(x) < 0) # (NumSign(y) < 0) THEN NegInfinity ELSE Infinity)
  ELSE IF IsInf(y) THEN Num(0)
  ELSE IF NumSign(y) = 0
  THEN (IF NumSign(x) = 0 THEN NaN
        ELSE IF NumSign(x) > 0 THEN Infinity ELSE NegInfinity)
  ELSE NumMul(x, Inverse(y))

\* the sign of x - y for numbers other than NaN
NumCmp(x, y) ==
  IF Small(x) /\ Small(y) THEN Sgn(x.n * y.d - y.n * x.d)
  ELSE IF IsInf(x) \/ IsInf(y)
  THEN Sgn((IF IsInf(x) THEN x.n ELSE 0) - (IF IsInf(y) THEN y.n ELSE 0))
  ELSE IF ~IsBig(x) /\ ~IsBig(y) /\ MulFits(x.n, y.d) /\ MulFits(y.n, x.d)
  THEN Sgn(x.n * y.d - y.n * x.d)
  ELSE NumSign(NumSub(x, y))

\* the relational operators: every comparison with NaN is false
NumLeq(x, y) == ~IsNaN(x) /\ ~IsNaN(y) /\ NumCmp(x, y) <= 0
NumLt(x, y) == ~IsNaN(x) /\ ~IsNaN(y) /\ NumCmp(x, y) < 0
NumEq(x, y) == ~IsNaN(x) /\ ~IsNaN(y) /\ NumCmp(x, y) = 0

\* Math.pow(x, k) for an integer k
RECURSIVE NumPow(_, _)
NumPow(x, k) ==
  IF k = 0 THEN Num(1)
  ELSE IF k < 0 THEN NumDiv(Num(1), NumPow(x, -k))
  ELSE NumMul(x, NumPow(x, k - 1))

\* Math.round: the nearest integer, a tie going up
MathRound(x) ==
  IF Small(x) THEN Num((2 * x.n + x.d) \div (2 * x.d))
  ELSE IF IsNaN(x) \/ IsInf(x) THEN x
  ELSE IF ~IsBig(x) /\ Abs(x.n) <= MaxInt \div 2 /\ x.d <= MaxInt \div 2
  THEN Num((2 * x.n + x.d) \div (2 * x.d))
  ELSE Long("ratRound", x, 0, 0, 0, 0)

\* rounding to whole units instead of cents
RoundWhole(x) == MathRound(x)

\* Math.round(x * 100) / 100
Round2(x) == NumDiv(MathRound(NumMul(x, Num(100))), Num(100))

\* Math.max(0, x)
MathMax0(x) == IF IsNaN(x) THEN NaN ELSE IF NumSign(x) < 0 THEN Num(0) ELSE x

\* ------------------------------------------------- text input (Step 1)
\* A text is a sequence of one-character strings.
DigitChars == {"0", "1", "2", "3", "4", "5", "6", "7", "8", "9"}

DigitVal(ch) ==
  CASE ch = "0" -> 0 [] ch = "1" -> 1 [] ch = "2" -> 2 [] ch = "3" -> 3
    [] ch = "4" -> 4 [] ch = "5" -> 5 [] ch = "6" -> 6 [] ch = "7" -> 7
    [] ch = "8" -> 8 [] ch = "9" -> 9

DigitChar(k) == CHOOSE ch \in DigitChars : DigitVal(ch) = k

\* the end of the run of digits of t that starts at position i
RECURSIVE DigitsEnd(_, _)
DigitsEnd(t, i) ==
  IF i <= Len(t) /\ t[i] \in DigitChars THEN DigitsEnd(t, i + 1) ELSE i

\* the value of the digits t[i..j-1]
RECURSIVE DigitsValue(_, _, _)
DigitsValue(t, i, j) ==
  IF j <= i THEN 0 ELSE 10 * DigitsValue(t, i, j - 1) + DigitVal(t[j - 1])

RECURSIVE Pow10(_)
Pow10(k) == IF k = 0 THEN 1 ELSE 10 * Pow10(k - 1)

\* parseInt(text): an optional sign, then the leading digits; NaN without one
ParseInt(t) ==
  LET neg == Len(t) >= 1 /\ t[1] = "-"
      i == IF neg THEN 2 ELSE 1
      j == DigitsEnd(t, i)
  IN  IF j = i THEN NaN
      ELSE Num((IF neg THEN -1 ELSE 1) * DigitsValue(t, i, j))

\* parseFloat(text): an optional sign, digits, an optional point and digits;
\* NaN when there is no digit on either side of the point
ParseFloat(t) ==
  LET neg == Len(t) >= 1 /\ t[1] = "-"
      i == IF neg THEN 2 ELSE 1
      j == DigitsEnd(t, i)
      pt == j <= Len(t) /\ t[j] = "."
      k == IF pt THEN DigitsEnd(t, j + 1) ELSE j
      frac == IF pt THEN k - (j + 1) ELSE 0
      whole == Num(DigitsValue(t, i, j))
      part == IF frac > 0 THEN Norm(DigitsValue(t, j + 1, k), Pow10(frac)) ELSE Num(0)
      v == NumAdd(whole, part)
  IN  IF j = i /\ frac = 0 THEN NaN ELSE IF neg THEN NumNeg(v) ELSE v

\* Step1LoanDetails.validate
Step1Validate(amount, durationMonths, monthlyInterestRate) ==
  /\ ~(amount = <<>> \/ NumLeq(ParseFloat(amount), Num(0)))
  /\ ~(durationMonths = <<>> \/ NumLeq(ParseInt(durationMonths), Num(0)))
  /\ ~(monthlyInterestRate # <<>> /\ NumLt(ParseFloat(monthlyInterestRate), Num(0)))

\* Step1LoanDetails.handleNext: the annual rate handed to the wizard
Step1AnnualRate(monthlyInterestRate) ==
  NumMul(IF monthlyInterestRate = <<>> THEN Num(0) ELSE ParseFloat(monthlyInterestRate),
         Num(12))

\* ------------------------------------------------- loan calculations
JsNull == [null |-> TRUE]

\* a Date: the instant t advanced by `plus` calendar months (setMonth + 1)
DateAt(t) == [t |-> t, plus |-> 0]

AddMonth(date) == [date EXCEPT !.plus = @ + 1]

\* an EMI computed by the formula alone, without the branch for rate 0
calculateEMIByFormula(principal, annualInterestRate, durationMonths) ==
  Round2(NumDiv(NumMul(NumMul(principal,
                              NumDiv(NumDiv(annualInterestRate, Num(12)), Num(100))),
                       NumPow(NumAdd(Num(1), NumDiv(NumDiv(annualInterestRate,
                                                           Num(12)), Num(100))),
                              durationMonths.n)),
                NumSub(NumPow(NumAdd(Num(1), NumDiv(NumDiv(annualInterestRate,
                                                           Num(12)), Num(100))),
                              durationMonths.n), Num(1))))

\* an EMI that is cut to whole units
calculateEMIWhole(principal, annualInterestRate, durationMonths) ==
  MathRound(NumDiv(principal, durationMonths))

\* (A value that is used more than once is bound by `x \in {value}`, which
\* computes it once, where the code has a const.)
calculateEMI(principal, annualInterestRate, durationMonths) ==
  IF NumEq(annualInterestRate, Num(0))
  THEN NumDiv(principal, durationMonths)
  ELSE CHOOSE rounded \in
         {Round2(emi) :
            emi \in {NumDiv(NumMul(NumMul(principal, monthlyRate), pow),
                            NumSub(pow, Num(1))) :
                       monthlyRate \in {NumDiv(NumDiv(annualInterestRate, Num(12)),
                                               Num(100))},
                       pow \in {IF IsNaN(durationMonths) THEN NaN
                                ELSE NumPow(NumAdd(Num(1),
                                              NumDiv(NumDiv(annualInterestRate,
                                                            Num(12)), Num(100))),
                                            durationMonths.n)}}} : TRUE

\* the for loop of generateAmortizationSchedule, from `month` on
RECURSIVE ScheduleLoop(_, _, _, _, _, _, _)
ScheduleLoop(month, durationMonths, monthlyRate, emi, balance, currentDate, schedule) ==
  IF ~NumLeq(Num(month), durationMonths) THEN schedule
  ELSE LET interestAmount == NumMul(balance, monthlyRate)
           principalAmount == NumSub(emi, interestAmount)
           newBalance == MathMax0(NumSub(balance, principalAmount))
           dueDate == AddMonth(currentDate)
           row == [month |-> month,
                   emi |-> Round2(emi),
                   principal |-> Round2(principalAmount),
                   interest |-> Round2(interestAmount),
                   balance |-> Round2(newBalance),
                   dueDate |-> dueDate,
                   paid |-> FALSE,
                   paidDate |-> JsNull]
       IN  CHOOSE rest \in
             {ScheduleLoop(month + 1, durationMonths, monthlyRate, emi, b, d, s) :
                b \in {newBalance}, d \in {dueDate},
                s \in {Append(schedule, row)}} : TRUE

\* a schedule whose loop starts at month 0
ScheduleFromZero(principal, annualInterestRate, durationMonths, startDate) ==
  ScheduleLoop(0, durationMonths,
               NumDiv(NumDiv(annualInterestRate, Num(12)), Num(100)),
               calculateEMI(principal, annualInterestRate, durationMonths),
               principal, startDate, <<>>)

generateAmortizationSchedule(principal, annualInterestRate, durationMonths, startDate) ==
  CHOOSE schedule \in
    {ScheduleLoop(1, months, monthlyRate, emi, balance, startDate, <<>>) :
       monthlyRate \in {NumDiv(NumDiv(annualInterestRate, Num(12)), Num(100))},
       emi \in {calculateEMI(principal, annualInterestRate, durationMonths)},
       balance \in {principal}, months \in {durationMonths}} : TRUE

\* calculateLoanProgress: 0 for a missing (null, undefined) or empty
\* schedule; "throws" when an element is null (TypeError on .paid)
NoValue == [throws |-> TRUE]

\* an emis argument that is undefined or null: no position 1..n at all
NoArray == [i \in {0} |-> "undefined"]

ElemPaid(e) == "paid" \in DOMAIN e /\ e.paid = TRUE

\* the progress a function that counts the installments still unpaid reports
calculateLoanProgressUnpaid(emis) ==
  IF emis = NoArray THEN Num(0)
  ELSE IF Len(emis) = 0 THEN Num(0)
  ELSE IF \E i \in DOMAIN emis : emis[i] = JsNull THEN NoValue
  ELSE LET unpaidCount == Cardinality({i \in DOMAIN emis : ~ElemPaid(emis[i])})
       IN  Round2(NumMul(NumDiv(Num(unpaidCount), Num(Len(emis))), Num(100)))

calculateLoanProgress(emis) ==
  IF emis = NoArray THEN Num(0)
  ELSE IF Len(emis) = 0 THEN Num(0)
  ELSE IF \E i \in DOMAIN emis : emis[i] = JsNull THEN NoValue
  ELSE LET paidCount == Cardinality({i \in DOMAIN emis : ElemPaid(emis[i])})
           progress == NumMul(NumDiv(Num(paidCount), Num(Len(emis))), Num(100))
       IN  Round2(progress)

\* ------------------------------------------------- arrays and objects
\* an array position that was never assigned (a hole of a sparse array)
Hole == [hole |-> TRUE]

\* arr[i] = v.  An index past the end leaves holes before it; a key that
\* is no array index (a negative number) adds a property that neither
\* every() nor JSON.stringify sees, so the elements stay as they are.
ArraySet(arr, i, v) ==
  IF i < 0 THEN arr
  ELSE IF i < Len(arr) THEN [arr EXCEPT ![i + 1] = v]
  ELSE arr \o [k \in 1..(i - Len(arr)) |-> Hole] \o <<v>>

\* arr[i]: undefined (here: a hole) outside the array
ArrayGet(arr, i) == IF i >= 0 /\ i < Len(arr) THEN arr[i + 1] ELSE Hole

\* { paid: true, paidDate }: the object literal without the spread
SpreadPaidOnly(e, paidDate) ==
  [f \in {"paid", "paidDate"} |-> IF f = "paid" THEN TRUE ELSE paidDate]

\* { ...e, paid: true, paidDate }: spreading undefined or null adds nothing
SpreadPaid(e, paidDate) ==
  LET base == IF e = Hole \/ e = JsNull THEN {} ELSE DOMAIN e
  IN  [f \in base \cup {"paid", "paidDate"} |->
         IF f = "paid" THEN TRUE ELSE IF f = "paidDate" THEN paidDate ELSE e[f]]

\* arr.every((emi) => emi.paid): holes are skipped, the first falsy answer
\* ends the walk, and reading .paid of null throws a TypeError
RECURSIVE EveryPaidFrom(_, _)
EveryPaidFrom(arr, i) ==
  IF i > Len(arr) THEN "true"
  ELSE IF arr[i] = Hole THEN EveryPaidFrom(arr, i + 1)
  ELSE IF arr[i] = JsNull THEN "throw"
  ELSE IF ElemPaid(arr[i]) THEN EveryPaidFrom(arr, i + 1)
  ELSE "false"

EveryPaid(arr) == EveryPaidFrom(arr, 1)

\* JSON.parse(JSON.stringify(x)): NaN and holes come back as null
NumFields == {"emi", "principal", "interest", "balance"}

JsonEmi(e) ==
  IF e = Hole \/ e = JsNull THEN JsNull
  ELSE [f \in DOMAIN e |-> IF f \in NumFields /\ e[f] = NaN THEN JsNull ELSE e[f]]

JsonEmis(emis) == [i \in DOMAIN emis |-> JsonEmi(emis[i])]

JsonLoan(l) ==
  [f \in DOMAIN l |->
     IF f = "emis" THEN JsonEmis(l.emis)
     ELSE IF f \in {"amount", "durationMonths", "annualInterestRate"} /\ l[f] = NaN
          THEN JsNull
     ELSE l[f]]

JsonLoans(ls) == [id \in DOMAIN ls |-> JsonLoan(ls[id])]

\* a merge that keeps an installment the stored loan already has paid
MergeUpdateKeepPaid(old, upd, updatedAt) ==
  [f \in (DOMAIN old \cup DOMAIN upd) \cup {"updatedAt"} |->
     IF f = "updatedAt" THEN updatedAt
     ELSE IF f = "emis" /\ "emis" \in DOMAIN upd /\ "emis" \in DOMAIN old
          THEN [i \in DOMAIN upd.emis |->
                  IF i \in DOMAIN old.emis /\ ElemPaid(old.emis[i])
                  THEN old.emis[i] ELSE upd.emis[i]]
     ELSE IF f \in DOMAIN upd THEN upd[f] ELSE old[f]]

\* { ...old, ...updates }: the updatedAt of the stored loan is kept
MergeUpdateNoStamp(old, upd, updatedAt) ==
  [f \in DOMAIN old \cup DOMAIN upd |->
     IF f \in DOMAIN upd THEN upd[f] ELSE old[f]]

\* { ...old, ...updates, updatedAt }
MergeUpdate(old, upd, updatedAt) ==
  [f \in (DOMAIN old \cup DOMAIN upd) \cup {"updatedAt"} |->
     IF f = "updatedAt" THEN updatedAt
     ELSE IF f \in DOMAIN upd THEN upd[f] ELSE old[f]]

\* ------------------------------------------------------------- inputs
\* two taps on "Mark Paid" can be in flight together
Calls == {1, 2}
LoanIds == 1..MaxLoans
\* the first loan of the store: the one LoanDetailScreen shows
FirstLoan == {1}

AmountTexts == {<<"1", "0", "0">>}
DurationTexts == {<<DigitChar(k)>> : k \in 0..MaxMonths} \cup {<<>>, <<".">>}
RateTexts == {<<"1">>}

\* the index argument: -1 stands for every key that is no array index
EmiIndexes == (0 - 1)..(MaxMonths + 1)


\* --------------------------------------------------------------- state
VARIABLES
  store,        \* AsyncStorage item @loanledger_loans, parsed: loan id -> loan
  nextId,       \* the number of loan ids generated so far, plus one
  now,          \* the instant a Date read returns
  createPc,     \* the wizard's createLoan: "idle" or waiting for "setItem"
  createLoans,  \* the loans object localLoans.create is about to write
  createResult, \* what the last createLoan returned: "null" or "loan"
  createStatus, \* the status field of the loanData the last createLoan got
  pc,           \* per markEMIAsPaid call: the storage operation it waits for
  loanId,       \* per call: the loanId argument
  emiIndex,     \* per call: the emiIndex argument
  loan,         \* per call: what getLoanById returned
  updates,      \* per call: { emis: updatedEMIs, status: newStatus }
  loans,        \* per call: the loans object localLoans.update is about to write
  success,      \* per call: what localLoans.update returned
  result,       \* per call: what markEMIAsPaid returned
  loading,      \* per useLocalStorage instance: its loading state
  calcTerms,    \* the loan terms a screen hands to the loanCalculations functions
  calcEmis,     \* the schedule generated for calcTerms, as a screen holds it
  calcOut,      \* what calculateEMI, calculateTotalInterest and
                \* calculateTotalAmount returned for calcTerms
  dueLoans,     \* the loans array handed to getEMIsNeedingReminders
  emiStatus,    \* per installment of dueLoans[1]: what LoanDetailScreen shows
  reminders,    \* what getEMIsNeedingReminders returned
  usersItem,    \* AsyncStorage item @loanledger_users, parsed: uid -> user
  currentUserItem, \* AsyncStorage item @loanledger_current_user, parsed
  nextUid,      \* the number of uids generated so far, plus one
  user,         \* AuthProvider state: user
  userProfile,  \* AuthProvider state: userProfile
  authCall,     \* per call of an AuthProvider function: its arguments, the
                \* storage operation it waits for, its locals and its outcome
  signedUp,     \* the email and password arguments of the signUp calls that
                \* stored a user
  currentStep,  \* LoanCreationWizard state: currentStep
  wizardData    \* LoanCreationWizard state: loanData

vars == <<store, nextId, now, createPc, createLoans, createResult, createStatus,
          pc, loanId, emiIndex, loan, updates, loans, success, result, loading,
          calcTerms, calcEmis, calcOut, dueLoans, emiStatus, reminders, usersItem,
          currentUserItem, nextUid, user, userProfile, authCall, signedUp,
          currentStep, wizardData>>

createVars == <<createPc, createLoans, createResult, createStatus>>

calcVars == <<calcTerms, calcEmis, calcOut>>

dueVars == <<dueLoans, emiStatus, reminders>>

authVars == <<usersItem, currentUserItem, nextUid, user, userProfile, authCall,
              signedUp>>

\* the stored loans and the calls that work on them
appVars == <<store, nextId, createVars, pc, loanId, emiIndex, loan, updates,
             loans, success, result, loading>>

\* the variables of the parts of the app that work on no stored loan
wizardVars == <<currentStep, wizardData>>

moreVars == <<dueVars, authVars, wizardVars>>

\* the terms of a screen that has computed nothing yet
NoTerms == [principal |-> Num(0), annualInterestRate |-> Num(0),
            durationMonths |-> Num(0)]

\* the useLocalStorage instances: the one of the loan creation wizard and
\* the one of the loan detail screen
Hooks == {"wizard", "detail"}

\* nothing stored, nothing running
AppIdle ==
  /\ store = <<>>
  /\ nextId = 1
  /\ createPc = "idle"
  /\ createLoans = <<>>
  /\ createResult = "none"
  /\ createStatus = "none"
  /\ pc = [c \in Calls |-> "idle"]
  /\ loanId = [c \in Calls |-> 0]
  /\ emiIndex = [c \in Calls |-> 0]
  /\ loan = [c \in Calls |-> JsNull]
  /\ updates = [c \in Calls |-> JsNull]
  /\ loans = [c \in Calls |-> <<>>]
  /\ success = [c \in Calls |-> "none"]
  /\ result = [c \in Calls |-> "none"]
  /\ loading = [h \in Hooks |-> FALSE]

\* the app after start
AppInit ==
  /\ AppIdle
  /\ now = 0

\* no screen has computed anything
CalcIdle ==
  /\ calcTerms = NoTerms
  /\ calcEmis = NoArray
  /\ calcOut = JsNull

\* no loans have been handed to the reminder functions
DueIdle ==
  /\ dueLoans = <<>>
  /\ emiStatus = <<>>
  /\ reminders = JsNull

\* the calls of AuthProvider functions that may be in flight together
AuthCalls == {1, 2}

\* a call slot in which no function has been called yet
NoAuthCall == [op |-> "none", pc |-> "idle", email |-> <<>>, password |-> <<>>,
               name |-> <<>>, users |-> <<>>, found |-> JsNull,
               result |-> "none"]

\* no account exists, nobody is signed in, no AuthProvider function runs
AuthIdle ==
  /\ usersItem = <<>>
  /\ currentUserItem = JsNull
  /\ nextUid = 1
  /\ user = JsNull
  /\ userProfile = JsNull
  /\ authCall = [c \in AuthCalls |-> NoAuthCall]
  /\ signedUp = {}

\* the wizard as it opens, with nobody signed in
WizardIdle ==
  /\ currentStep = 1
  /\ wizardData = [amount |-> <<>>, durationMonths |-> <<>>,
                   annualInterestRate |-> <<>>, emis |-> <<>>,
                   borrowerId |-> <<>>, borrowerName |-> <<>>,
                   borrowerEmail |-> <<>>, borrowerPhone |-> <<>>,
                   lenderId |-> <<>>, lenderName |-> <<>>]

MoreIdle == DueIdle /\ AuthIdle /\ WizardIdle

Init ==
  /\ AppInit
  /\ CalcIdle
  /\ MoreIdle

\* ---------------------------------------------------- totals of a schedule
\* emis.filter(keep).reduce((sum, emi) => sum + emi[field], 0) from position
\* i on: filter skips holes, and a field the element lacks reads undefined
RECURSIVE SumFrom(_, _, _, _, _)
SumFrom(arr, field, keepPaid, i, sum) ==
  IF i > Len(arr) THEN sum
  ELSE LET e == arr[i]
           keep == e # Hole /\ (keepPaid = "all" \/ (keepPaid = "paid") = ElemPaid(e))
       IN  CHOOSE total \in
             {SumFrom(arr, field, keepPaid, i + 1, s) :
                s \in {IF ~keep THEN sum
                       ELSE IF field \in DOMAIN e THEN NumAdd(sum, e[field])
                       ELSE NaN}} : TRUE

\* a total that adds up the principal parts of the schedule
calculateTotalOfPrincipal(principal, annualInterestRate, durationMonths) ==
  Round2(SumFrom(generateAmortizationSchedule(principal, annualInterestRate,
                                              durationMonths, DateAt(now)),
                 "principal", "all", 1, Num(0)))

calculateTotalInterest(principal, annualInterestRate, durationMonths) ==
  CHOOSE rounded \in
    {Round2(totalInterest) :
       totalInterest \in
         {SumFrom(schedule, "interest", "all", 1, Num(0)) :
            schedule \in {generateAmortizationSchedule(principal, annualInterestRate,
                                                       durationMonths, DateAt(now))}}} :
    TRUE

calculateTotalAmount(principal, annualInterestRate, durationMonths) ==
  CHOOSE rounded \in
    {Round2(total) :
       total \in {NumAdd(principal, totalInterest) :
                   totalInterest \in {calculateTotalInterest(principal,
                                         annualInterestRate, durationMonths)}}} :
    TRUE

\* calculateTotalPaid: 0 for a missing or empty schedule; reading .paid of a
\* null element throws
calculateTotalPaid(arr) ==
  IF arr = NoArray THEN Num(0)
  ELSE IF Len(arr) = 0 THEN Num(0)
  ELSE IF \E i \in DOMAIN arr : arr[i] = JsNull THEN NoValue
  ELSE Round2(SumFrom(arr, "emi", "paid", 1, Num(0)))

\* a remaining amount that counts every installment, paid or not
calculateRemainingOfAll(arr) ==
  IF arr = NoArray THEN Num(0)
  ELSE IF Len(arr) = 0 THEN Num(0)
  ELSE Round2(SumFrom(arr, "emi", "all", 1, Num(0)))

calculateRemainingAmount(arr) ==
  IF arr = NoArray THEN Num(0)
  ELSE IF Len(arr) = 0 THEN Num(0)
  ELSE IF \E i \in DOMAIN arr : arr[i] = JsNull THEN NoValue
  ELSE Round2(SumFrom(arr, "emi", "unpaid", 1, Num(0)))

\* the loan terms the functions are applied to
Principals == {Num(0 - 100), Num(0), Num(100), Num(225)}
Rates == {Num(0 - 12), Num(0), Num(12)}
Months == {Num(m) : m \in (0 - 1)..MaxTerm}
Terms(principal, annualInterestRate, durationMonths) ==
  [principal |-> principal, annualInterestRate |-> annualInterestRate,
   durationMonths |-> durationMonths]
\* 50000 at 12% over 12 months, and 12000 at 0% over 12 months
YearLoans == {Terms(Num(50000), Num(12), Num(12)), Terms(Num(12000), Num(0), Num(12))}
CalcTerms == {Terms(p, r, m) : p \in Principals, r \in Rates, m \in Months}
               \cup YearLoans

\* a screen with loan terms entered and nothing computed yet
CalcInit ==
  /\ AppInit
  /\ calcTerms \in CalcTerms
  /\ calcEmis = NoArray
  /\ calcOut = JsNull
  /\ MoreIdle

\* the loanCalculations functions are applied to the terms
Calculate ==
  /\ calcOut = JsNull
  /\ LET p == calcTerms.principal
         r == calcTerms.annualInterestRate
         m == calcTerms.durationMonths
     IN  /\ calcOut' = [emi |-> calculateEMI(p, r, m),
                        totalInterest |-> calculateTotalInterest(p, r, m),
                        totalAmount |-> calculateTotalAmount(p, r, m)]
         /\ calcEmis' = generateAmortizationSchedule(p, r, m, DateAt(now))
  /\ UNCHANGED <<store, nextId, now, createVars, pc, loanId, emiIndex, loan,
                 updates, loans, success, result, loading, calcTerms,
                 moreVars>>

\* installment i of the schedule is replaced by { ...emi, paid: true, paidDate }
SetPaid(i) ==
  /\ calcOut # JsNull
  /\ i >= 0 /\ i < Len(calcEmis)
  /\ ~ElemPaid(calcEmis[i + 1])
  /\ calcEmis' = ArraySet(calcEmis, i, SpreadPaid(ArrayGet(calcEmis, i), DateAt(now)))
  /\ UNCHANGED <<store, nextId, now, createVars, pc, loanId, emiIndex, loan,
                 updates, loans, success, result, loading, calcTerms,
                 calcOut, moreVars>>

\* the positions of the schedule the screen holds
CalcIndexes == IF calcOut = JsNull THEN {} ELSE 0..(Len(calcEmis) - 1)

\* The calculation functions on their own: terms are drawn, the functions
\* are applied, and installments of the schedule are set paid in any order.
CalcNext ==
  \/ Calculate
  \/ \E i \in CalcIndexes : SetPaid(i)

CalcSpec == CalcInit /\ [][CalcNext]_vars

\* LoanCreationWizard.handleStep1Complete: the wizard's loanData
handleStep1Complete(amount, durationMonths, annualInterestRate, startDate) ==
  [amount |-> ParseFloat(amount),
   durationMonths |-> ParseInt(durationMonths),
   annualInterestRate |-> annualInterestRate,
   emis |-> generateAmortizationSchedule(ParseFloat(amount), annualInterestRate,
                                         ParseInt(durationMonths), startDate)]

\* a record in which a status that loanData carries is kept
NewLoanDataStatus(id, loanData, createdAt, updatedAt) ==
  [f \in (DOMAIN loanData \cup {"id", "createdAt", "updatedAt", "status"}) |->
     CASE f = "id" -> id
       [] f = "createdAt" -> createdAt
       [] f = "updatedAt" -> updatedAt
       [] f = "status" -> IF "status" \in DOMAIN loanData THEN loanData.status
                                                           ELSE "active"
       [] OTHER -> loanData[f]]

\* localLoans.create: the record stored for loanData
NewLoan(id, loanData, createdAt, updatedAt) ==
  [f \in (DOMAIN loanData \cup {"id", "createdAt", "updatedAt", "status"}) |->
     CASE f = "id" -> id
       [] f = "createdAt" -> createdAt
       [] f = "updatedAt" -> updatedAt
       [] f = "status" -> "active"
       [] OTHER -> loanData[f]]

\* useLocalStorage.createLoan(loanData) -> localLoans.create up to its
\* setItem: getItem resolves (or rejects, and createLoan returns null), the
\* id is generated and the new record is put into the parsed loans object
createLoan(loanData) ==
  /\ createStatus' = IF "status" \in DOMAIN loanData THEN loanData.status
                                                     ELSE "none"
  /\ \E getItemOk \in BOOLEAN :
       IF getItemOk
       THEN /\ nextId' = nextId + 1
            /\ createLoans' =
                 [id \in DOMAIN store \cup {nextId} |->
                    IF id = nextId
                    THEN NewLoan(nextId, loanData, DateAt(now), DateAt(now))
                    ELSE store[id]]
            /\ createPc' = "setItem"
            /\ createResult' = "none"
            /\ loading' = [loading EXCEPT !["wizard"] = TRUE]
       ELSE /\ createResult' = "null"
            /\ loading' = [loading EXCEPT !["wizard"] = FALSE]
            /\ UNCHANGED <<nextId, createLoans, createPc>>
  /\ UNCHANGED <<store, now, pc, loanId, emiIndex, loan, updates, loans, success,
                 result, calcVars, moreVars>>

\* The wizard is taken through steps 1-4 and "Create Loan" is pressed:
\* handleFinalSubmit -> createLoan(loanData).
\* Step 4 renders firstEMI.emi, so it only shows for a non-empty schedule,
\* and its button is disabled while a createLoan is running.
handleFinalSubmit(ids) ==
  /\ createPc = "idle"
  /\ nextId \in ids
  /\ \E amount \in AmountTexts, duration \in DurationTexts, rate \in RateTexts :
       /\ Step1Validate(amount, duration, rate)
       /\ \E loanData \in {handleStep1Complete(amount, duration,
                                                Step1AnnualRate(rate), DateAt(now))} :
            /\ Len(loanData.emis) >= 1
            /\ createLoan(loanData)

\* the status values a caller of createLoan may put into loanData
StatusArgs == {"active", "completed", "defaulted"}

\* createLoan called with the wizard's loanData and a status field added
createLoanWithStatus(ids) ==
  /\ createPc = "idle"
  /\ nextId \in ids
  /\ \E amount \in AmountTexts, duration \in DurationTexts, rate \in RateTexts :
       /\ Step1Validate(amount, duration, rate)
       /\ \E loanData \in {handleStep1Complete(amount, duration,
                                                Step1AnnualRate(rate), DateAt(now))} :
            /\ Len(loanData.emis) >= 1
            /\ \E status \in StatusArgs :
                 createLoan([f \in DOMAIN loanData \cup {"status"} |->
                               IF f = "status" THEN status ELSE loanData[f]])

\* localLoans.create: AsyncStorage.setItem takes effect or rejects
CreateSetItem ==
  /\ createPc = "setItem"
  /\ \E setItemOk \in BOOLEAN :
       IF setItemOk
       THEN /\ store' = JsonLoans(createLoans)
            /\ createResult' = "loan"
       ELSE /\ createResult' = "null"
            /\ UNCHANGED store
  /\ createPc' = "idle"
  /\ createLoans' = <<>>
  /\ loading' = [loading EXCEPT !["wizard"] = FALSE]
  /\ UNCHANGED <<nextId, now, createStatus, pc, loanId, emiIndex, loan, updates,
                 loans, success, result, calcVars, moreVars>>

\* a lookup that answers an unknown id with a loan that has no installments
getByIdOrEmpty(ls, id) == IF id \in DOMAIN ls THEN ls[id] ELSE [emis |-> <<>>]

\* localLoans.getById on the parsed loans object: loans[loanId] || null
getById(ls, id) == IF id \in DOMAIN ls THEN ls[id] ELSE JsNull

\* the index arguments a caller passes for the loan it read: LoanDetailScreen
\* passes positions of the schedule it shows, other callers anything
IndexArgs(got, screen) ==
  IF screen /\ got # JsNull THEN 0..(Len(got.emis) - 1) ELSE EmiIndexes

\* markEMIAsPaid(id, idx) up to its await updateLoan: getLoanById reads the
\* store (a rejected getItem makes it return null), then the new schedule
\* and status are computed.  Call slots are interchangeable: the lowest
\* free one is taken.
markEMIAsPaid(c, ids, screen) ==
  /\ pc[c] \in {"idle", "done"}
  /\ \A d \in Calls : d < c => pc[d] \notin {"idle", "done"}
  /\ \E id \in ids, getItemOk \in BOOLEAN :
       LET got == IF getItemOk THEN getById(store, id) ELSE JsNull
       IN  \E idx \in IndexArgs(got, screen) :
             LET updatedEMIs == ArraySet(got.emis, idx,
                                   SpreadPaid(ArrayGet(got.emis, idx), DateAt(now)))
                 allPaid == EveryPaid(updatedEMIs)
             IN  /\ loanId' = [loanId EXCEPT ![c] = id]
                 /\ emiIndex' = [emiIndex EXCEPT ![c] = idx]
                 /\ success' = [success EXCEPT ![c] = "none"]
                 /\ IF got = JsNull \/ allPaid = "throw"
                    THEN /\ pc' = [pc EXCEPT ![c] = "done"]
                         /\ result' = [result EXCEPT ![c] = "false"]
                         /\ loan' = [loan EXCEPT ![c] = JsNull]
                         /\ updates' = [updates EXCEPT ![c] = JsNull]
                         /\ loading' = [loading EXCEPT !["detail"] = FALSE]
                    ELSE /\ loading' = [loading EXCEPT !["detail"] = TRUE]
                         /\ pc' = [pc EXCEPT ![c] = "updateGet"]
                         /\ result' = [result EXCEPT ![c] = "none"]
                         /\ loan' = [loan EXCEPT ![c] = got]
                         /\ updates' = [updates EXCEPT ![c] =
                              [emis |-> updatedEMIs,
                               status |-> IF allPaid = "true" THEN "completed"
                                                              ELSE "active"]]
  /\ UNCHANGED <<store, nextId, now, createVars, loans, calcVars, moreVars>>

\* localLoans.update: AsyncStorage.getItem resolves (or rejects) and the
\* stored loan is merged with the updates; a failure is caught and update
\* returns false, which updateLoan hands on and markEMIAsPaid does not read
UpdateGetItem(c) ==
  /\ pc[c] = "updateGet"
  /\ \E getItemOk \in BOOLEAN :
       IF getItemOk /\ loanId[c] \in DOMAIN store
       THEN /\ loans' = [loans EXCEPT ![c] =
                 [store EXCEPT ![loanId[c]] =
                    MergeUpdate(store[loanId[c]], updates[c], DateAt(now))]]
            /\ pc' = [pc EXCEPT ![c] = "updateSet"]
            /\ UNCHANGED <<success, result, loan, updates, loading>>
       ELSE /\ success' = [success EXCEPT ![c] = "false"]
            /\ loading' = [loading EXCEPT !["detail"] = FALSE]
            /\ result' = [result EXCEPT ![c] = "true"]
            /\ pc' = [pc EXCEPT ![c] = "done"]
            /\ loan' = [loan EXCEPT ![c] = JsNull]
            /\ updates' = [updates EXCEPT ![c] = JsNull]
            /\ UNCHANGED loans
  /\ UNCHANGED <<store, nextId, now, createVars, loanId, emiIndex, calcVars,
                 moreVars>>

\* localLoans.update: AsyncStorage.setItem takes effect or rejects;
\* markEMIAsPaid then returns true and its locals are gone
UpdateSetItem(c) ==
  /\ pc[c] = "updateSet"
  /\ \E setItemOk \in BOOLEAN :
       IF setItemOk
       THEN /\ store' = JsonLoans(loans[c])
            /\ success' = [success EXCEPT ![c] = "true"]
       ELSE /\ success' = [success EXCEPT ![c] = "false"]
            /\ UNCHANGED store
  /\ result' = [result EXCEPT ![c] = "true"]
  /\ pc' = [pc EXCEPT ![c] = "done"]
  /\ loan' = [loan EXCEPT ![c] = JsNull]
  /\ updates' = [updates EXCEPT ![c] = JsNull]
  /\ loans' = [loans EXCEPT ![c] = <<>>]
  /\ loading' = [loading EXCEPT !["detail"] = FALSE]
  /\ UNCHANGED <<nextId, now, createVars, loanId, emiIndex, calcVars, moreVars>>

\* no createLoan and no markEMIAsPaid is running
Quiet == createPc = "idle" /\ \A c \in Calls : pc[c] \in {"idle", "done"}

\* One loan; calls made one after the other, with any index argument.
SeqNext ==
  \/ Quiet /\ handleFinalSubmit(FirstLoan)
  \/ CreateSetItem
  \/ \E c \in Calls :
       \/ Quiet /\ markEMIAsPaid(c, LoanIds, FALSE)
       \/ UpdateGetItem(c)
       \/ UpdateSetItem(c)

SeqSpec == Init /\ [][SeqNext]_vars

\* time passes: the next new Date() returns a later instant
Tick ==
  /\ now < MaxNow
  /\ now' = now + 1
  /\ UNCHANGED <<appVars, calcVars, moreVars>>

\* One loan; the loan detail screen marks its installments paid, one call
\* after the other, while time passes.
TimedNext ==
  \/ Quiet /\ handleFinalSubmit(FirstLoan)
  \/ CreateSetItem
  \/ \E c \in Calls :
       \/ Quiet /\ markEMIAsPaid(c, FirstLoan, TRUE)
       \/ UpdateGetItem(c)
       \/ UpdateSetItem(c)
  \/ Tick

TimedSpec == Init /\ [][TimedNext]_vars

\* The loan detail screen of one loan: taps on "Mark Paid" may interleave.
RaceNext ==
  \/ handleFinalSubmit(FirstLoan)
  \/ CreateSetItem
  \/ \E c \in Calls :
       \/ markEMIAsPaid(c, FirstLoan, TRUE)
       \/ UpdateGetItem(c)
       \/ UpdateSetItem(c)

RaceSpec == Init /\ [][RaceNext]_vars

\* The whole app: the wizard creates loans while detail screens mark
\* installments paid, everything interleaving.
Next ==
  \/ handleFinalSubmit(LoanIds)
  \/ CreateSetItem
  \/ \E c \in Calls :
       \/ markEMIAsPaid(c, LoanIds, TRUE)
       \/ UpdateGetItem(c)
       \/ UpdateSetItem(c)

Spec == Init /\ [][Next]_vars

\* Loans are created with and without a status in loanData, and their
\* installments are marked paid, one call after the other.
CreateNext ==
  \/ Quiet /\ createLoanWithStatus(LoanIds)
  \/ Quiet /\ handleFinalSubmit(LoanIds)
  \/ CreateSetItem
  \/ \E c \in Calls :
       \/ Quiet /\ markEMIAsPaid(c, LoanIds, TRUE)
       \/ UpdateGetItem(c)
       \/ UpdateSetItem(c)

CreateSpec == Init /\ [][CreateNext]_vars

\* ------------------------------------------------ due dates and reminders
\* An instant is a count of milliseconds, as Date.getTime() gives it; an
\* installment's dueDate is held as the instant its ISO string denotes, so
\* new Date(dueDate) is that instant and new Date() is the clock, now.
DayMs == 1000 * 60 * 60 * 24

\* Math.ceil(a / b) for whole a and b > 0 (-0 counts as 0)
MathCeil(a, b) == 0 - ((0 - a) \div b)

\* the day count rounded down instead of up
getDaysUntilDueFloor(dueDate) == (dueDate - now) \div DayMs

getDaysUntilDue(dueDate) ==
  LET today == now
      due == dueDate
      diffTime == due - today
      diffDays == MathCeil(diffTime, DayMs)
  IN  diffDays

isEMIOverdue(emi) ==
  IF emi.paid THEN FALSE
  ELSE LET dueDate == emi.dueDate
           today == now
       IN  today > dueDate

\* the reminder type with no look at the paid flag
getEMIReminderTypeOfAny(emi) ==
  LET daysUntilDue == getDaysUntilDue(emi.dueDate)
  IN  IF daysUntilDue < 0 THEN "overdue"
      ELSE IF daysUntilDue = 7 THEN "7day"
      ELSE IF daysUntilDue = 3 THEN "3day"
      ELSE IF daysUntilDue = 1 THEN "1day"
      ELSE "null"

\* "null" stands for the null the function returns
getEMIReminderType(emi) ==
  IF emi.paid THEN "null"
  ELSE LET daysUntilDue == getDaysUntilDue(emi.dueDate)
       IN  IF daysUntilDue < 0 THEN "overdue"
           ELSE IF daysUntilDue = 7 THEN "7day"
           ELSE IF daysUntilDue = 3 THEN "3day"
           ELSE IF daysUntilDue = 1 THEN "1day"
           ELSE "null"

NoReminders == [sevenDay |-> <<>>, threeDay |-> <<>>, oneDay |-> <<>>,
                overdue |-> <<>>]

\* loan.emis.forEach((emi, index) => ...) from position index on
RECURSIVE RemindEmis(_, _, _)
RemindEmis(loanOf, index, found) ==
  IF index >= Len(loanOf.emis) THEN found
  ELSE LET emi == loanOf.emis[index + 1]
           reminderType == getEMIReminderType(emi)
           reminderData == [loan |-> loanOf, emi |-> emi, emiIndex |-> index]
       IN  RemindEmis(loanOf, index + 1,
             CASE reminderType = "7day" ->
                    [found EXCEPT !.sevenDay = Append(@, reminderData)]
               [] reminderType = "3day" ->
                    [found EXCEPT !.threeDay = Append(@, reminderData)]
               [] reminderType = "1day" ->
                    [found EXCEPT !.oneDay = Append(@, reminderData)]
               [] reminderType = "overdue" ->
                    [found EXCEPT !.overdue = Append(@, reminderData)]
               [] OTHER -> found)

\* loans.forEach((loan) => ...) from position k on
RECURSIVE RemindLoans(_, _, _)
RemindLoans(ls, k, found) ==
  IF k > Len(ls) THEN found
  ELSE IF "emis" \notin DOMAIN ls[k] \/ ls[k].status = "completed"
       THEN RemindLoans(ls, k + 1, found)
       ELSE RemindLoans(ls, k + 1, RemindEmis(ls[k], 0, found))

getEMIsNeedingReminders(ls) == RemindLoans(ls, 1, NoReminders)

\* what the payment schedule of LoanDetailScreen shows for one installment
EmiStatus(emi) ==
  LET overdue == isEMIOverdue(emi)
      daysUntil == getDaysUntilDue(emi.dueDate)
  IN  [overdue |-> overdue, daysUntil |-> daysUntil,
       statusText |-> IF emi.paid THEN "Paid"
                      ELSE IF overdue THEN "days overdue"
                      ELSE IF daysUntil <= 3 THEN "Due in"
                      ELSE "Pending"]

\* the clock is read every half day, for MaxDays days
HalfDay == DayMs \div 2
Clock == {k * HalfDay : k \in 0..(2 * MaxDays)}

\* installments due a day before the start of the clock, at its start and
\* 1, 3 and 7 days after it
DueDays == {0 - 1, 0, 1, 3, 7}
DueEmis == {[dueDate |-> d * DayMs, paid |-> p] : d \in DueDays, p \in BOOLEAN}
DueSchedules == {<<[month |-> 1] @@ e1, [month |-> 2] @@ e2>> :
                   e1 \in DueEmis, e2 \in DueEmis}
DueStatuses == {"active", "completed"}
DueLoans ==
  {[id |-> 1, status |-> st, emis |-> sch] : st \in DueStatuses, sch \in DueSchedules}
  \cup {[id |-> 1, status |-> st] : st \in DueStatuses}
\* the other loans of the array: one without a schedule, or a completed
\* and an active one
OtherDueLoans ==
  { <<[id |-> 2, status |-> "active"]>>,
    <<[id |-> 2, status |-> "completed",
       emis |-> <<[month |-> 1, dueDate |-> 0 - DayMs, paid |-> FALSE]>>],
      [id |-> 3, status |-> "active",
       emis |-> <<[month |-> 1, dueDate |-> 3 * DayMs, paid |-> FALSE]>>]>> }

DueInit ==
  /\ AppIdle
  /\ CalcIdle
  /\ AuthIdle
  /\ WizardIdle
  /\ now \in Clock
  /\ dueLoans \in {<<l1>> \o ls : l1 \in DueLoans, ls \in OtherDueLoans}
  /\ emiStatus = <<>>
  /\ reminders = JsNull

\* LoanDetailScreen renders the payment schedule of the first loan
renderEmiList ==
  /\ "emis" \in DOMAIN dueLoans[1]
  /\ emiStatus = <<>>
  /\ emiStatus' = [i \in DOMAIN dueLoans[1].emis |-> EmiStatus(dueLoans[1].emis[i])]
  /\ UNCHANGED <<appVars, now, calcVars, authVars, wizardVars, dueLoans,
                 reminders>>

\* processLoanReminders asks which installments need a reminder
checkReminders ==
  /\ reminders = JsNull
  /\ reminders' = getEMIsNeedingReminders(dueLoans)
  /\ UNCHANGED <<appVars, now, calcVars, authVars, wizardVars, dueLoans,
                 emiStatus>>

DueNext ==
  \/ renderEmiList
  \/ checkReminders

DueSpec == DueInit /\ [][DueNext]_vars

\* ------------------------------------------------ accounts and AuthProvider
\* A string is the sequence of its characters.
LowerOf(ch) == IF ch = "A" THEN "a" ELSE IF ch = "P" THEN "p" ELSE ch

toLowerCase(t) == [i \in DOMAIN t |-> LowerOf(t[i])]

\* Object.values(users).find(...): the first user, in the order the uids
\* were inserted, that has the email (and the password, if one is asked for)
FindUser(users, email, password, withPassword) ==
  LET hits == {uid \in DOMAIN users :
                 /\ users[uid].email = email
                 /\ withPassword => users[uid].password = password}
  IN  IF hits = {} THEN JsNull
      ELSE users[CHOOSE uid \in hits : \A other \in hits : uid <= other]

\* what localAuth.signIn, signUp and getCurrentUser return for a stored user
AuthUser(u) == [uid |-> u.uid, email |-> u.email, displayName |-> u.name]

\* localUserProfile.getProfile
getProfile(users, userId) ==
  IF userId \notin DOMAIN users THEN JsNull
  ELSE [id |-> users[userId].uid, name |-> users[userId].name,
        email |-> users[userId].email, createdAt |-> users[userId].createdAt]

Emails == {<<"a">>, <<"A">>}
Passwords == {<<"p">>, <<"P">>}
Names == {<<"n">>}

\* the call in slot c, started with the given arguments
AuthStart(c, op, first, email, password, name, found) ==
  /\ authCall[c].pc = "idle"
  /\ authCall' = [authCall EXCEPT ![c] =
       [op |-> op, pc |-> first, email |-> email, password |-> password,
        name |-> name, users |-> <<>>, found |-> found, result |-> "none"]]
  /\ UNCHANGED <<usersItem, currentUserItem, nextUid, user, userProfile, signedUp>>
  /\ UNCHANGED <<appVars, now, calcVars, dueVars, wizardVars>>

\* the call in slot c returns or throws
AuthEnd(c, outcome) == [authCall[c] EXCEPT !.pc = "idle", !.result = outcome]

\* AuthProvider mounts: useEffect calls checkAuthState
checkAuthState(c) ==
  /\ \A d \in AuthCalls : authCall[d].op = "none"
  /\ AuthStart(c, "checkAuthState", "getCurrentUser", <<>>, <<>>, <<>>, JsNull)

\* AuthProvider.signIn calls localAuth.signIn, which awaits the users item
signIn(c, email, password) ==
  AuthStart(c, "signIn", "getUsers", email, password, <<>>, JsNull)

\* AuthProvider.signUp calls localAuth.signUp, which awaits the users item
signUp(c, email, password, name) ==
  AuthStart(c, "signUp", "getUsers", email, password, name, JsNull)

\* AuthProvider.signOut calls localAuth.signOut, which awaits removeItem
signOut(c) ==
  AuthStart(c, "signOut", "removeItem", <<>>, <<>>, <<>>, JsNull)

\* AuthProvider.refreshUserProfile: with a user, it awaits getUserProfile
refreshUserProfile(c) ==
  /\ user # JsNull
  /\ AuthStart(c, "refreshUserProfile", "getProfile", <<>>, <<>>, <<>>, user)

\* localAuth.signIn / signUp: AsyncStorage.getItem(USERS) resolves
AuthGetUsers(c) ==
  /\ authCall[c].pc = "getUsers"
  /\ LET email == authCall[c].email
         password == authCall[c].password
         users == usersItem
     IN  IF authCall[c].op = "signIn"
         THEN LET found == FindUser(users, toLowerCase(email), password, TRUE)
              IN  /\ authCall' = [authCall EXCEPT ![c] =
                       IF found = JsNull THEN AuthEnd(c, "Invalid email or password")
                       ELSE [@ EXCEPT !.pc = "setCurrentUser", !.found = found]]
                  /\ UNCHANGED nextUid
         ELSE LET existingUser == FindUser(users, toLowerCase(email), <<>>, FALSE)
                  uid == nextUid
                  newUser == [uid |-> uid, email |-> toLowerCase(email),
                              password |-> password, name |-> authCall[c].name,
                              createdAt |-> now]
              IN  IF existingUser # JsNull
                  THEN /\ authCall' = [authCall EXCEPT ![c] =
                                         AuthEnd(c, "Email already in use")]
                       /\ UNCHANGED nextUid
                  ELSE /\ nextUid <= MaxUsers
                       /\ nextUid' = nextUid + 1
                       /\ authCall' = [authCall EXCEPT ![c] =
                            [@ EXCEPT !.pc = "setUsers", !.found = newUser,
                                      !.users = [u \in DOMAIN users \cup {uid} |->
                                                   IF u = uid THEN newUser
                                                   ELSE users[u]]]]
  /\ UNCHANGED <<usersItem, currentUserItem, user, userProfile, signedUp>>
  /\ UNCHANGED <<appVars, now, calcVars, dueVars, wizardVars>>

\* localAuth.signUp: AsyncStorage.setItem(USERS) takes effect
AuthSetUsers(c) ==
  /\ authCall[c].pc = "setUsers"
  /\ usersItem' = authCall[c].users
  /\ signedUp' = signedUp \cup {[email |-> authCall[c].email,
                                 password |-> authCall[c].password]}
  /\ authCall' = [authCall EXCEPT ![c].pc = "setCurrentUser"]
  /\ UNCHANGED <<currentUserItem, nextUid, user, userProfile>>
  /\ UNCHANGED <<appVars, now, calcVars, dueVars, wizardVars>>

\* localAuth.signIn / signUp: AsyncStorage.setItem(CURRENT_USER) takes
\* effect and the function returns; AuthProvider does setUser(user) and
\* awaits getUserProfile(user.uid)
AuthSetCurrentUser(c) ==
  /\ authCall[c].pc = "setCurrentUser"
  /\ currentUserItem' = authCall[c].found
  /\ user' = AuthUser(authCall[c].found)
  /\ authCall' = [authCall EXCEPT ![c].pc = "getProfile",
                                  ![c].found = AuthUser(authCall[c].found)]
  /\ UNCHANGED <<usersItem, nextUid, userProfile, signedUp>>
  /\ UNCHANGED <<appVars, now, calcVars, dueVars, wizardVars>>

\* checkAuthState: localAuth.getCurrentUser resolves; with a current user,
\* setUser(currentUser) and getUserProfile(currentUser.uid) is awaited
AuthGetCurrentUser(c) ==
  /\ authCall[c].pc = "getCurrentUser"
  /\ IF currentUserItem = JsNull
     THEN /\ authCall' = [authCall EXCEPT ![c] = AuthEnd(c, "ok")]
          /\ UNCHANGED user
     ELSE /\ user' = AuthUser(currentUserItem)
          /\ authCall' = [authCall EXCEPT ![c].pc = "getProfile",
                                          ![c].found = AuthUser(currentUserItem)]
  /\ UNCHANGED <<usersItem, currentUserItem, nextUid, userProfile, signedUp>>
  /\ UNCHANGED <<appVars, now, calcVars, dueVars, wizardVars>>

\* getUserProfile resolves: setUserProfile(profile) and the function returns
AuthGetProfile(c) ==
  /\ authCall[c].pc = "getProfile"
  /\ userProfile' = getProfile(usersItem, authCall[c].found.uid)
  /\ authCall' = [authCall EXCEPT ![c] = AuthEnd(c, "ok")]
  /\ UNCHANGED <<usersItem, currentUserItem, nextUid, user, signedUp>>
  /\ UNCHANGED <<appVars, now, calcVars, dueVars, wizardVars>>

\* localAuth.signOut: AsyncStorage.removeItem(CURRENT_USER) takes effect;
\* AuthProvider does setUser(null) and setUserProfile(null)
AuthRemoveItem(c) ==
  /\ authCall[c].pc = "removeItem"
  /\ currentUserItem' = JsNull
  /\ user' = JsNull
  /\ userProfile' = JsNull
  /\ authCall' = [authCall EXCEPT ![c] = AuthEnd(c, "ok")]
  /\ UNCHANGED <<usersItem, nextUid, signedUp>>
  /\ UNCHANGED <<appVars, now, calcVars, dueVars, wizardVars>>

\* The login and profile screens call the AuthProvider functions; a call
\* may start while another one waits for storage.
AuthNext ==
  \E c \in AuthCalls :
    \/ checkAuthState(c)
    \/ \E email \in Emails, password \in Passwords : signIn(c, email, password)
    \/ \E email \in Emails, password \in Passwords, name \in Names :
         signUp(c, email, password, name)
    \/ signOut(c)
    \/ refreshUserProfile(c)
    \/ AuthGetUsers(c)
    \/ AuthSetUsers(c)
    \/ AuthSetCurrentUser(c)
    \/ AuthGetCurrentUser(c)
    \/ AuthGetProfile(c)
    \/ AuthRemoveItem(c)

AuthInit ==
  /\ AppInit
  /\ CalcIdle
  /\ DueIdle
  /\ AuthIdle
  /\ WizardIdle

AuthSpec == AuthInit /\ [][AuthNext]_vars

\* ------------------------------------------------ the loan creation wizard
\* text.trim(), for texts of letters, digits and spaces
RECURSIVE trimStart(_)
trimStart(t) == IF t # <<>> /\ t[1] = " " THEN trimStart(Tail(t)) ELSE t

RECURSIVE trimEnd(_)
trimEnd(t) ==
  IF t # <<>> /\ t[Len(t)] = " " THEN trimEnd(SubSeq(t, 1, Len(t) - 1)) ELSE t

trim(t) == trimEnd(trimStart(t))

\* /^[^\s@]+@[^\s@]+\.[^\s@]+$/.test(email): no space, one @ after at least
\* one character, and after it a point with a character on either side
isValidEmail(email) ==
  \E i \in 2..Len(email) :
    /\ email[i] = "@"
    /\ \A k \in DOMAIN email : email[k] # " " /\ (k # i => email[k] # "@")
    /\ \E j \in (i + 2)..(Len(email) - 1) : email[j] = "."

PhoneDigits == 10

\* /^[0-9]{10}$/.test(phone.replace(/[\s-]/g, ''))
isValidPhone(phone) ==
  LET digits == SelectSeq(phone, LAMBDA ch : ch \notin {" ", "-"})
  IN  Len(digits) = PhoneDigits /\ \A k \in DOMAIN digits : digits[k] \in DigitChars

\* a validation that asks for a name only
Step3ValidateName(borrowerName, borrowerEmail, borrowerPhone) ==
  ~(borrowerName = <<>> \/ Len(trim(borrowerName)) = 0)

\* Step3SelectBorrower.validate
Step3Validate(borrowerName, borrowerEmail, borrowerPhone) ==
  /\ ~(borrowerName = <<>> \/ Len(trim(borrowerName)) = 0)
  /\ ~(borrowerEmail # <<>> /\ ~isValidEmail(borrowerEmail))
  /\ ~(borrowerPhone # <<>> /\ ~isValidPhone(borrowerPhone))
  /\ ~(borrowerEmail = <<>> /\ borrowerPhone = <<>>)

\* { ...prev, ...updates }
Spread(prev, upd) ==
  [f \in DOMAIN prev \cup DOMAIN upd |-> IF f \in DOMAIN upd THEN upd[f] ELSE prev[f]]

\* the texts typed into step 1
WizardAmountTexts == AmountTexts \cup {<<>>, <<"0">>, <<"x">>}
WizardRateTexts == RateTexts \cup {<<"-", "1">>, <<"x">>}

\* the texts typed into step 3
NameTexts == {<<>>, <<" ">>, <<"n">>, <<" ", "n">>}
EmailTexts == {<<>>, <<" ">>, <<"a", "@", "b">>, <<"a", "@", "b", ".", "c">>}
PhoneTexts ==
  {<<>>, <<" ">>,
   [k \in 1..PhoneDigits |-> "7"],
   [k \in 1..(PhoneDigits - 1) |-> "7"],
   <<"-">> \o [k \in 1..PhoneDigits |-> "7"],
   <<"x">> \o [k \in 1..(PhoneDigits - 1) |-> "7"]}

\* LoanCreationWizard.nextStep
nextStep == currentStep' = IF currentStep < 4 THEN currentStep + 1 ELSE currentStep

\* LoanCreationWizard.previousStep
previousStep == currentStep' = IF currentStep > 1 THEN currentStep - 1 ELSE currentStep

\* Step1LoanDetails.handleNext: with valid inputs, handleStep1Complete
\* generates the schedule, puts it into loanData and goes to the next step
Step1HandleNext ==
  /\ currentStep = 1
  /\ \E amount \in WizardAmountTexts, duration \in DurationTexts,
        rate \in WizardRateTexts :
       /\ Step1Validate(amount, duration, rate)
       /\ wizardData' = Spread(wizardData,
            handleStep1Complete(amount, duration, Step1AnnualRate(rate), DateAt(now)))
  /\ nextStep
  /\ UNCHANGED <<appVars, now, calcVars, dueVars, authVars>>

\* Step2AmortizationSchedule: "Next"
handleStep2Complete ==
  /\ currentStep = 2
  /\ nextStep
  /\ UNCHANGED <<appVars, now, calcVars, dueVars, authVars, wizardData>>

\* Step3SelectBorrower.handleNext: with valid inputs, handleStep3Complete
\* puts the borrower into loanData and goes to the next step
Step3HandleNext ==
  /\ currentStep = 3
  /\ \E borrowerName \in NameTexts, borrowerEmail \in EmailTexts,
        borrowerPhone \in PhoneTexts :
       /\ Step3Validate(borrowerName, borrowerEmail, borrowerPhone)
       /\ wizardData' = Spread(wizardData,
            [borrowerId |-> <<"b">>,
             borrowerName |-> trim(borrowerName),
             borrowerEmail |-> trim(borrowerEmail),
             borrowerPhone |-> trim(borrowerPhone)])
  /\ nextStep
  /\ UNCHANGED <<appVars, now, calcVars, dueVars, authVars>>

\* Step4ContractReview renders firstEMI.emi and throws for an empty schedule
Step4Renders == Len(wizardData.emis) >= 1

\* "Back" on steps 2, 3 and 4
onBack ==
  /\ currentStep \in {2, 3} \/ (currentStep = 4 /\ Step4Renders)
  /\ previousStep
  /\ UNCHANGED <<appVars, now, calcVars, dueVars, authVars, wizardData>>

\* "Create Loan" on step 4: handleFinalSubmit calls createLoan with the
\* wizard's loanData; the button is disabled while a createLoan is running
onSubmit ==
  /\ currentStep = 4
  /\ Step4Renders
  /\ createPc = "idle"
  /\ nextId \in FirstLoan
  /\ createLoan(Spread(wizardData, [createdAt |-> DateAt(now)]))

WizardNext ==
  \/ Step1HandleNext
  \/ handleStep2Complete
  \/ Step3HandleNext
  \/ onBack
  \/ onSubmit
  \/ CreateSetItem

WizardSpec == Init /\ [][WizardNext]_vars




\* ------------------------------------------------------------ properties
\* i is the index of an installment record of emis
ValidIndex(emis, i) == i >= 0 /\ i < Len(emis) /\ emis[i + 1] # JsNull

\* i is a position of the array emis
InRange(emis, i) == i >= 0 /\ i < Len(emis)

AllPaid(emis) == \A i \in DOMAIN emis : ElemPaid(emis[i])

\* the variables of the calls other than c
OtherCalls(c) ==
  [d \in Calls \ {c} |-> <<pc[d], loanId[d], emiIndex[d], loan[d], updates[d],
                           loans[d], success[d], result[d]>>]

\* this step is call c entering markEMIAsPaid
MarkCallStep(c) ==
  /\ pc[c] \in {"idle", "done"}
  /\ UNCHANGED <<store, nextId, now, createVars, OtherCalls(c)>>

\* this step is call c's setItem taking effect
UpdateWriteStep(c) ==
  pc[c] = "updateSet" /\ pc'[c] = "done" /\ success'[c] = "true"

\* this step is call c returning from the updateLoan it awaited
UpdateReturnStep(c) ==
  pc[c] \in {"updateGet", "updateSet"} /\ pc'[c] = "done"

\* C1: a stored loan's status is 'completed' exactly when every element of
\* its stored schedule has paid == true, after any sequence of markEMIAsPaid
\* calls.
C1_StatusIffAllPaid ==
  \A id \in DOMAIN store :
    (store[id].status = "completed") <=> AllPaid(store[id].emis)

\* C2: once a stored loan's status is 'completed' no step sets it back to
\* 'active', whatever the interleaving of markEMIAsPaid calls on the loan.
C2_CompletedNeverReverts ==
  [][\A id \in DOMAIN store :
       (store[id].status = "completed" /\ id \in DOMAIN store')
         => store'[id].status = "completed"]_vars

C4_BadIndexFails ==
  [][\A c \in Calls :
       (UpdateReturnStep(c) /\ ~InRange(loan[c].emis, emiIndex[c]))
       => (result'[c] = "false" /\ store' = store)]_vars

\* C5: a markEMIAsPaid call with a loan id that is not in the store returns
\* false at once: it never reaches updateLoan, so nothing is written and
\* the store stays as it was.
C5_UnknownLoanFails ==
  [][\A c \in Calls :
       (MarkCallStep(c) /\ loanId'[c] \notin DOMAIN store)
       => (pc'[c] = "done" /\ result'[c] = "false" /\ store' = store)]_vars

\* C5 witness: a call has returned false for a loan id the store, which
\* holds a loan, does not have.
C5_UnknownLoanCalled ==
  \E c \in Calls :
    /\ pc[c] = "done" /\ result[c] = "false"
    /\ loanId[c] \in LoanIds
    /\ loanId[c] \notin DOMAIN store
    /\ DOMAIN store # {}

\* C6: markEMIAsPaid returns true only if its write succeeded.
C6_TrueOnlyIfWritten ==
  \A c \in Calls :
    (pc[c] = "done" /\ result[c] = "true") => success[c] = "true"

\* C7: when call b read the loan before call a's write of another
\* installment of the same loan landed, b's write replaces the whole
\* schedule: afterwards a's installment is unpaid again and b's is paid,
\* and both calls have returned true.
C7_LaterWriteReplacesSchedule ==
  [][\A a \in Calls, b \in Calls :
       (/\ a # b
        /\ UpdateWriteStep(b)
        /\ pc[a] = "done" /\ result[a] = "true" /\ success[a] = "true"
        /\ loanId[a] = loanId[b]
        /\ emiIndex[a] # emiIndex[b]
        /\ ValidIndex(loan[b].emis, emiIndex[a])
        /\ ValidIndex(loan[b].emis, emiIndex[b])
        /\ ~ElemPaid(loan[b].emis[emiIndex[a] + 1])
        /\ ElemPaid(store[loanId[a]].emis[emiIndex[a] + 1]))
       => LET after == store'[loanId[b]].emis
          IN  /\ result'[a] = "true" /\ result'[b] = "true"
              /\ after = JsonEmis(updates[b].emis)
              /\ ~ElemPaid(after[emiIndex[a] + 1])
              /\ ElemPaid(after[emiIndex[b] + 1])]_vars

\* C7 witness: two calls on the same loan for different installments have
\* both returned true after a successful write, and the stored loan has
\* only one of the two installments paid.
C7_LostUpdateReached ==
  \E a \in Calls, b \in Calls :
    /\ a # b
    /\ pc[a] = "done" /\ result[a] = "true" /\ success[a] = "true"
    /\ pc[b] = "done" /\ result[b] = "true" /\ success[b] = "true"
    /\ loanId[a] = loanId[b]
    /\ emiIndex[a] # emiIndex[b]
    /\ loanId[a] \in DOMAIN store
    /\ LET emis == store[loanId[a]].emis
       IN  /\ ValidIndex(emis, emiIndex[a]) /\ ValidIndex(emis, emiIndex[b])
           /\ ~ElemPaid(emis[emiIndex[a] + 1])
           /\ ElemPaid(emis[emiIndex[b] + 1])

\* C8: the write of a markEMIAsPaid call on loan B leaves the update that a
\* finished call on another loan A has stored in place.
C8_OtherLoanKept ==
  [][\A a \in Calls, b \in Calls :
       (/\ a # b
        /\ UpdateWriteStep(b)
        /\ pc[a] = "done" /\ result[a] = "true" /\ success[a] = "true"
        /\ loanId[a] # loanId[b]
        /\ loanId[a] \in DOMAIN store
        /\ ValidIndex(store[loanId[a]].emis, emiIndex[a])
        /\ ElemPaid(store[loanId[a]].emis[emiIndex[a] + 1]))
       => (/\ loanId[a] \in DOMAIN store'
           /\ ElemPaid(store'[loanId[a]].emis[emiIndex[a] + 1]))]_vars

C10_ScheduleLength ==
  \A id \in DOMAIN store :
    /\ Len(store[id].emis) >= 1
    /\ store[id].durationMonths = Num(Len(store[id].emis))

\* C11: on the step where createLoan's write takes effect and the new loan
\* is returned, the loan returned and the loan stored have status 'active',
\* whatever status loanData carried, and every installment of the schedule
\* has paid = false and paidDate = null.
FreshLoan(l) ==
  /\ l.status = "active"
  /\ \A i \in DOMAIN l.emis : l.emis[i].paid = FALSE /\ l.emis[i].paidDate = JsNull

C11_CreatedLoanActive ==
  [][(createPc = "setItem" /\ createResult' = "loan") =>
       LET id == nextId - 1
       IN  /\ FreshLoan(createLoans[id])
           /\ id \in DOMAIN store'
           /\ FreshLoan(store'[id])]_vars

\* a createLoan given status 'completed' has returned the stored loan
C11_CompletedPassedIn ==
  /\ createResult = "loan"
  /\ createStatus = "completed"
  /\ (nextId - 1) \in DOMAIN store
  /\ store[nextId - 1].status = "active"
  /\ Len(store[nextId - 1].emis) >= 1

\* ---- the calculation functions
\* valid loan terms: principal > 0, rate >= 0, a whole number of months >= 1
ValidTerms(t) ==
  /\ NumLt(Num(0), t.principal)
  /\ NumLeq(Num(0), t.annualInterestRate)
  /\ t.durationMonths.d = 1 /\ t.durationMonths.n >= 1

\* the functions have been applied to valid terms
Calculated == calcOut # JsNull /\ ValidTerms(calcTerms)

\* the step on which the functions are applied
CalculateStep == calcOut = JsNull /\ calcOut' # JsNull

Cent == Norm(1, 100)

\* |x - y| <= 0.01
WithinCent(x, y) == NumLeq(NumSub(x, y), Cent) /\ NumLeq(NumSub(y, x), Cent)

\* C12: for valid terms the schedule that generateAmortizationSchedule
\* returns has exactly durationMonths installments in month order: the k-th
\* has month = k, all have the same emi, paid = false and paidDate = null.
C12_ScheduleShape ==
  [][(CalculateStep /\ ValidTerms(calcTerms)) =>
       /\ Len(calcEmis') = calcTerms.durationMonths.n
       /\ \A k \in DOMAIN calcEmis' :
            /\ calcEmis'[k].month = k
            /\ calcEmis'[k].emi = calcEmis'[1].emi
            /\ calcEmis'[k].paid = FALSE
            /\ calcEmis'[k].paidDate = JsNull]_vars

\* a schedule of several installments has been generated for valid terms
C12_SeveralGenerated ==
  /\ Calculated
  /\ Len(calcEmis) = MaxTerm
  /\ \A k \in DOMAIN calcEmis : ~ElemPaid(calcEmis[k])

\* C13: in every installment of a schedule generated for valid terms,
\* principal + interest differs from emi by at most 0.01.
C13_PartsAddUp ==
  Calculated =>
    \A k \in DOMAIN calcEmis :
      WithinCent(NumAdd(calcEmis[k].principal, calcEmis[k].interest),
                 calcEmis[k].emi)

\* an installment with interest whose parts were rounded on their own
C13_RoundedParts ==
  /\ Calculated
  /\ \E k \in DOMAIN calcEmis :
       /\ NumLt(Num(0), calcEmis[k].interest)
       /\ NumLt(Num(0), calcEmis[k].balance)
       /\ k >= 2

\* C14: in a schedule generated for valid terms the stored balance is never
\* negative, never increases from one installment to the next (starting
\* from the principal), and the balance of the final installment is 0
\* within one cent.
C14_BalanceRunsToZero ==
  Calculated =>
    /\ \A k \in DOMAIN calcEmis :
         /\ NumLeq(Num(0), calcEmis[k].balance)
         /\ NumLeq(calcEmis[k].balance,
                   IF k = 1 THEN calcTerms.principal ELSE calcEmis[k - 1].balance)
    /\ WithinCent(calcEmis[Len(calcEmis)].balance, Num(0))

\* C14, the part that holds: the balance is never negative and never rises
C14_BalanceFalls ==
  Calculated =>
    \A k \in DOMAIN calcEmis :
      /\ NumLeq(Num(0), calcEmis[k].balance)
      /\ NumLeq(calcEmis[k].balance,
                IF k = 1 THEN calcTerms.principal ELSE calcEmis[k - 1].balance)

\* C15: for terms with principal <= 0, months <= 0 or rate < 0 both functions
\* reject the call with an error: calculateEMI returns no number (so neither
\* NaN nor Infinity) and no schedule, not even an empty one, is returned.
C15_InvalidTermsRejected ==
  (calcOut # JsNull /\ ~ValidTerms(calcTerms)) =>
    (calcOut.emi = NoValue /\ calcEmis = NoArray)

\* C16: for valid terms, a rate of 0 included, the value calculateEMI
\* returns is rounded to 2 decimals.
C16_EmiInCents ==
  Calculated => NumEq(Round2(calcOut.emi), calcOut.emi)

\* C17: for a zero-rate loan whose principal is a multiple of the months
\* (12000 over 12 months among them) every installment has interest 0 and
\* principal = emi = principal / months, and the balance goes down by
\* exactly emi per installment, to exactly 0.
ZeroRateEven(t) ==
  /\ ValidTerms(t)
  /\ NumEq(t.annualInterestRate, Num(0))
  /\ t.principal.d = 1
  /\ t.principal.n % t.durationMonths.n = 0

C17_ZeroRateEven ==
  (calcOut # JsNull /\ ZeroRateEven(calcTerms)) =>
    LET each == Num(calcTerms.principal.n \div calcTerms.durationMonths.n)
    IN  /\ calcOut.emi = each
        /\ \A k \in DOMAIN calcEmis :
             /\ calcEmis[k].interest = Num(0)
             /\ calcEmis[k].principal = each
             /\ calcEmis[k].emi = each
             /\ calcEmis[k].balance =
                  Num(calcTerms.principal.n - k * each.n)
        /\ calcEmis[Len(calcEmis)].balance = Num(0)

\* the schedule of 12000 at 0% over 12 months has been generated
C17_TwelveThousand ==
  /\ calcOut # JsNull
  /\ calcTerms = Terms(Num(12000), Num(0), Num(12))
  /\ Len(calcEmis) = 12
  /\ calcEmis[1].emi = Num(1000)

\* C18 (as computed by the code): for 50000 at 12% over 12 months
\* calculateEMI returns 4442.44, the first installment has interest 500.00
\* and principal 3942.44, and the last installment has balance 0.00.
FiftyThousand == Terms(Num(50000), Num(12), Num(12))

C18_FiftyThousandValues ==
  (calcOut # JsNull /\ calcTerms = FiftyThousand) =>
    /\ calcOut.emi = Norm(444244, 100)
    /\ calcEmis[1].interest = Num(500)
    /\ calcEmis[1].principal = Norm(394244, 100)
    /\ calcEmis[12].balance = Num(0)

\* C18 as stated: calculateEMI returns 4442.47 and the first installment
\* has interest 500.00 and principal 3942.47; the last balance is 0.00.
C18_FiftyThousandStated ==
  (calcOut # JsNull /\ calcTerms = FiftyThousand) =>
    /\ calcOut.emi = Norm(444247, 100)
    /\ calcEmis[1].interest = Num(500)
    /\ calcEmis[1].principal = Norm(394247, 100)
    /\ calcEmis[12].balance = Num(0)

\* the schedule of 50000 at 12% over 12 months has been generated
C18_FiftyThousandGenerated ==
  /\ calcOut # JsNull
  /\ calcTerms = FiftyThousand
  /\ Len(calcEmis) = 12

\* the sum of a field over the installments at the positions in S
RECURSIVE FieldSum(_, _, _)
FieldSum(arr, field, S) ==
  IF S = {} THEN Num(0)
  ELSE LET k == CHOOSE j \in S : TRUE
       IN  NumAdd(arr[k][field], FieldSum(arr, field, S \ {k}))

PaidAt(arr) == {k \in DOMAIN arr : ElemPaid(arr[k])}

\* C19: calculateTotalPaid is the sum of emi over the paid installments,
\* calculateRemainingAmount the sum of emi over the unpaid ones, and the two
\* add up to the sum of emi over all installments; both are 0 for a missing
\* and for an empty schedule.
C19_PaidAndRemaining ==
  /\ calculateTotalPaid(NoArray) = Num(0)
  /\ calculateRemainingAmount(NoArray) = Num(0)
  /\ calculateTotalPaid(<<>>) = Num(0)
  /\ calculateRemainingAmount(<<>>) = Num(0)
  /\ IF calcOut = JsNull
     THEN calculateTotalPaid(calcEmis) = Num(0)
          /\ calculateRemainingAmount(calcEmis) = Num(0)
     ELSE /\ calculateTotalPaid(calcEmis) = FieldSum(calcEmis, "emi", PaidAt(calcEmis))
          /\ calculateRemainingAmount(calcEmis) =
               FieldSum(calcEmis, "emi", DOMAIN calcEmis \ PaidAt(calcEmis))
          /\ NumAdd(calculateTotalPaid(calcEmis), calculateRemainingAmount(calcEmis))
               = FieldSum(calcEmis, "emi", DOMAIN calcEmis)

\* some installments of a schedule are paid and others are not
C19_PartlyPaid ==
  /\ calcOut # JsNull
  /\ PaidAt(calcEmis) # {}
  /\ PaidAt(calcEmis) # DOMAIN calcEmis
  /\ NumLt(Num(0), calculateTotalPaid(calcEmis))
  /\ NumLt(Num(0), calculateRemainingAmount(calcEmis))

\* C20: calculateTotalInterest is the sum of the interest fields of the
\* generated schedule, and calculateTotalAmount is principal + totalInterest
\* within one cent.
C20_Totals ==
  Calculated =>
    /\ calcOut.totalInterest = FieldSum(calcEmis, "interest", DOMAIN calcEmis)
    /\ WithinCent(calcOut.totalAmount,
                  NumAdd(calcTerms.principal, calcOut.totalInterest))

\* totals of a loan that bears interest have been computed
C20_InterestBearing ==
  /\ Calculated
  /\ Len(calcEmis) >= 2
  /\ NumLt(Num(0), calcOut.totalInterest)
  /\ NumLt(calcTerms.principal, calcOut.totalAmount)

\* ------------------------------------------------------------------ C21
\* the first loan's installments, once LoanDetailScreen has rendered them
Rendered == DOMAIN emiStatus

\* dueDate - now of the first loan's installment i
DiffTime(i) == dueLoans[1].emis[i].dueDate - now

Buckets == {"sevenDay", "threeDay", "oneDay", "overdue"}

\* how often the installment at index of loanOf is in a bucket
InBucket(bucket, loanOf, index) ==
  Cardinality({j \in DOMAIN reminders[bucket] :
                 reminders[bucket][j] =
                   [loan |-> loanOf, emi |-> loanOf.emis[index + 1],
                    emiIndex |-> index]})

\* the bucket a day count belongs to
BucketOf(days) ==
  IF days < 0 THEN "overdue"
  ELSE IF days = 7 THEN "sevenDay"
  ELSE IF days = 3 THEN "threeDay"
  ELSE IF days = 1 THEN "oneDay"
  ELSE "none"

\* C26: getEMIsNeedingReminders emits no reminder for a paid installment,
\* for an installment of a completed loan or for a loan without a schedule;
\* every unpaid installment of a loan that is not completed is exactly once
\* in the bucket of its day count (overdue below 0, sevenDay, threeDay,
\* oneDay at exactly 7, 3, 1) and in no bucket for any other day count.
C26_ReminderBuckets ==
  reminders # JsNull =>
    /\ \A b \in Buckets : \A j \in DOMAIN reminders[b] :
         /\ ~reminders[b][j].emi.paid
         /\ reminders[b][j].loan.status # "completed"
         /\ \E k \in DOMAIN dueLoans : dueLoans[k] = reminders[b][j].loan
    /\ \A k \in DOMAIN dueLoans :
         ("emis" \in DOMAIN dueLoans[k] /\ dueLoans[k].status = "active") =>
           \A i \in DOMAIN dueLoans[k].emis :
             ~dueLoans[k].emis[i].paid =>
               \A b \in Buckets :
                 InBucket(b, dueLoans[k], i - 1) =
                   IF b = BucketOf(getDaysUntilDue(dueLoans[k].emis[i].dueDate))
                   THEN 1 ELSE 0

\* reminders were computed for an array that holds an overdue unpaid
\* installment, an installment due in 3 days, a paid overdue installment and
\* a completed loan with an unpaid overdue installment
C26_BucketsFilled ==
  /\ reminders # JsNull
  /\ "emis" \in DOMAIN dueLoans[1]
  /\ Len(reminders.overdue) > 0
  /\ Len(reminders.threeDay) > 0
  /\ \E i \in DOMAIN dueLoans[1].emis :
       dueLoans[1].emis[i].paid /\ dueLoans[1].emis[i].dueDate <= now - DayMs
  /\ dueLoans[2].status = "completed"


\* ------------------------------------------------------------------ C27
\* C27: the two overdue tests agree: for every unpaid installment on screen
\* isEMIOverdue is true exactly if getDaysUntilDue is negative, and exactly
\* if getEMIReminderType returns 'overdue'; a paid installment is overdue
\* under neither test.
C27_OverdueTestsAgree ==
  \A i \in Rendered :
    LET emi == dueLoans[1].emis[i]
    IN  IF emi.paid
        THEN ~emiStatus[i].overdue /\ getEMIReminderType(emi) # "overdue"
        ELSE /\ emiStatus[i].overdue <=> emiStatus[i].daysUntil < 0
             /\ emiStatus[i].overdue <=> getEMIReminderType(emi) = "overdue"


\* ------------------------------------------------------------------ C24
\* C24: in local storage mode email and password are both case-sensitive at
\* sign-in: a signIn call succeeds only with an email and a password that
\* are character for character those some signUp call was given.
C24_SignInCaseSensitive ==
  \A c \in AuthCalls :
    (authCall[c].op = "signIn" /\ authCall[c].result = "ok") =>
      [email |-> authCall[c].email, password |-> authCall[c].password]
        \in signedUp

\* ------------------------------------------------------------------ C28
\* C28: in every state of the auth provider a null user comes with a null
\* userProfile, whatever the interleaving of signIn, signUp, signOut,
\* refreshUserProfile and the check of the auth state.
C28_NoProfileWithoutUser == user = JsNull => userProfile = JsNull


\* ------------------------------------------------------------------ C22
\* this step is call c's localLoans.update merging the updates into the
\* loan it read
UpdateMergeStep(c) == pc[c] = "updateGet" /\ pc'[c] = "updateSet"

RemarkOfPaid(c) ==
  /\ loanId[c] \in DOMAIN store
  /\ InRange(store[loanId[c]].emis, emiIndex[c])
  /\ ElemPaid(store[loanId[c]].emis[emiIndex[c] + 1])

\* C23: re-applying markEMIAsPaid to an installment that is already paid is
\* accepted (computing the update of a paid installment never throws) and
\* idempotent on the data: its write leaves the paid flag of every
\* installment and the loan status as they were.
C23_RemarkIdempotent ==
  [][/\ \A id \in DOMAIN store : \A i \in DOMAIN store[id].emis :
          ElemPaid(store[id].emis[i]) =>
            EveryPaid(ArraySet(store[id].emis, i - 1,
                        SpreadPaid(ArrayGet(store[id].emis, i - 1), DateAt(now))))
              # "throw"
     /\ \A c \in Calls :
          (UpdateWriteStep(c) /\ RemarkOfPaid(c)) =>
            /\ Len(store'[loanId[c]].emis) = Len(store[loanId[c]].emis)
            /\ \A i \in DOMAIN store[loanId[c]].emis :
                 ElemPaid(store'[loanId[c]].emis[i])
                   <=> ElemPaid(store[loanId[c]].emis[i])
            /\ store'[loanId[c]].status = store[loanId[c]].status]_vars

\* ------------------------------------------------------------------ C29
\* C29: the loading flag of a storage hook is true whenever one of its
\* operations has started and not yet returned: while a markEMIAsPaid of the
\* loan detail screen or the createLoan of the wizard waits for storage.
C29_LoadingWhileRunning ==
  /\ (\E c \in Calls : pc[c] \in {"updateGet", "updateSet"}) => loading["detail"]
  /\ createPc = "setItem" => loading["wizard"]

\* ------------------------------------------------------------------ C25
\* a loan record or the wizard's loanData names a borrower: a non-blank
\* name and an email or a phone number, each one given being well-formed
BorrowerOk(d) ==
  /\ Len(trim(d.borrowerName)) > 0
  /\ d.borrowerEmail # <<>> \/ d.borrowerPhone # <<>>
  /\ d.borrowerEmail # <<>> => isValidEmail(d.borrowerEmail)
  /\ d.borrowerPhone # <<>> => isValidPhone(d.borrowerPhone)

\* C25: the wizard leaves step 3 only with a non-blank borrower name and at
\* least one of email and phone, each supplied one well-formed, so the
\* loanData of step 4 and every loan the wizard creates names such a
\* borrower.
C25_BorrowerRequired ==
  /\ currentStep = 4 => BorrowerOk(wizardData)
  /\ \A id \in DOMAIN createLoans : BorrowerOk(createLoans[id])
  /\ \A id \in DOMAIN store : BorrowerOk(store[id])

\* the wizard has created a loan whose borrower gave a phone number and no
\* email
C25_LoanWithPhoneOnly ==
  \E id \in DOMAIN store :
    store[id].borrowerEmail = <<>> /\ store[id].borrowerPhone # <<>>

\* ------------------------------------------------------------------ C30
\* the loanData step 1 hands on: an amount above 0, a whole duration of at
\* least 1 month, a rate of at least 0 and one installment per month
StepOneOk(d) ==
  /\ NumLt(Num(0), d.amount)
  /\ ~IsNaN(d.durationMonths) /\ d.durationMonths.d = 1 /\ d.durationMonths.n >= 1
  /\ NumLeq(Num(0), d.annualInterestRate)
  /\ Len(d.emis) = d.durationMonths.n

\* C30: currentStep stays within 1..4 and changes by at most one per action;
\* the wizard is past step 1 only with an amount that parses to a number
\* above 0, a duration that parses to an integer of at least 1 and a rate
\* that parses to a number of at least 0, so the schedule held at steps 2-4
\* and the one passed to createLoan has exactly durationMonths >= 1
\* installments.
C30_WizardSteps ==
  [][/\ currentStep' \in 1..4
     /\ currentStep' - currentStep \in {0 - 1, 0, 1}
     /\ currentStep' \in 2..4 => StepOneOk(wizardData')
     /\ \A id \in DOMAIN createLoans' : Len(createLoans'[id].emis) >= 1]_vars


====
